---- MODULE Spec2Model ----
\* Model of whatsapp_parser.py: the line-by-line assembler of
\* parse_whatsapp_chat (header pattern, timestamp decoding, continuation
\* lines, final flush), the derivation of the calendar columns, and the
\* main block that filters, analyses, sorts and saves the table.
\* Text is a sequence of one-character strings, so that stripping, the
\* header pattern and strptime are computed character by character.
EXTENDS Integers, Sequences, FiniteSets, TLC

VARIABLES lines, i, current_message, messages, df, pc,
          first_csv, output_file, conversation_starters

\* What the main block leaves behind: the two CSV files, and the rows
\* find_conversation_starters selects.
outputs == <<first_csv, output_file, conversation_starters>>

vars == <<lines, i, current_message, messages, df, pc, outputs>>

\* Largest number of lines in a transcript.
MaxLines == 3

\* Python's None; also stands for pandas' NaT / NaN in a column.
None == [none |-> TRUE]

-----------------------------------------------------------------------------
\* Characters

Digit == {"0", "1", "2", "3", "4", "5", "6", "7", "8", "9"}

\* What str.strip() removes and what \s matches.
Whitespace == {" ", "\t", "\n"}

DigitVal(c) ==
    CASE c = "0" -> 0 [] c = "1" -> 1 [] c = "2" -> 2 [] c = "3" -> 3
      [] c = "4" -> 4 [] c = "5" -> 5 [] c = "6" -> 6 [] c = "7" -> 7
      [] c = "8" -> 8 [] c = "9" -> 9

DigitChar(n) ==
    CASE n = 0 -> "0" [] n = 1 -> "1" [] n = 2 -> "2" [] n = 3 -> "3"
      [] n = 4 -> "4" [] n = 5 -> "5" [] n = 6 -> "6" [] n = 7 -> "7"
      [] n = 8 -> "8" [] n = 9 -> "9"

\* The character at position p, or "" past either end.
At(s, p) == IF p \in 1..Len(s) THEN s[p] ELSE ""

\* str.strip(): drop leading and trailing whitespace.
RECURSIVE lstrip(_)
lstrip(s) ==
    IF s # <<>> /\ Head(s) \in Whitespace THEN lstrip(Tail(s)) ELSE s

RECURSIVE rstrip(_)
rstrip(s) ==
    IF s # <<>> /\ s[Len(s)] \in Whitespace
    THEN rstrip(SubSeq(s, 1, Len(s) - 1))
    ELSE s

\* strip that removes trailing whitespace only.
strip_TrailingOnly(s) == rstrip(s)

strip(s) == rstrip(lstrip(s))

-----------------------------------------------------------------------------
\* The header pattern
\*   ^(\d{1,2}/\d{1,2}/\d{2}),\s(\d{1,2}:\d{2}\s[ap]m)\s-\s([^:]+):\s(.+)$

\* Length of the greedy \d{1,2} run at position p (0 when there is none).
DigitRun(s, p) ==
    IF At(s, p) \in Digit
    THEN IF At(s, p + 1) \in Digit THEN 2 ELSE 1
    ELSE 0

\* Position of the first ":" at or after p, or Len(s) + 1.
RECURSIVE FirstColon(_, _)
FirstColon(s, p) ==
    IF p > Len(s) \/ s[p] = ":" THEN p ELSE FirstColon(s, p + 1)

\* Everything of the pattern up to and including the ":" after the sender:
\* the end positions of the groups, or None when the text does not match.
HeaderPrefix(s) ==
    LET d1 == DigitRun(s, 1)
        s1 == 1 + d1                   \* first "/"
        d2 == DigitRun(s, s1 + 1)
        s2 == s1 + 1 + d2              \* second "/"
        c1 == s2 + 3                   \* ","
        t0 == c1 + 2                   \* first digit of the time
        h  == DigitRun(s, t0)
        c2 == t0 + h                   \* ":" of the time
        m  == c2 + 5                   \* the "m" of am/pm
        n0 == m + 4                    \* first character of the sender
        c3 == FirstColon(s, n0)        \* ":" after the sender
    IN  IF /\ d1 > 0 /\ At(s, s1) = "/"
           /\ d2 > 0 /\ At(s, s2) = "/"
           /\ At(s, s2 + 1) \in Digit /\ At(s, s2 + 2) \in Digit
           /\ At(s, c1) = ","
           /\ At(s, c1 + 1) \in Whitespace
           /\ h > 0 /\ At(s, c2) = ":"
           /\ At(s, c2 + 1) \in Digit /\ At(s, c2 + 2) \in Digit
           /\ At(s, c2 + 3) \in Whitespace
           /\ At(s, c2 + 4) \in {"a", "p"}
           /\ At(s, m) = "m"
           /\ At(s, m + 1) \in Whitespace
           /\ At(s, m + 2) = "-"
           /\ At(s, m + 3) \in Whitespace
           /\ c3 > n0 /\ c3 <= Len(s)
        THEN [dateEnd |-> s2 + 2, timeStart |-> t0, timeEnd |-> m,
              senderStart |-> n0, colon |-> c3]
        ELSE None

\* pattern with the body group written (.*) after an optional \s.
pattern_EmptyBody(s) ==
    LET p == HeaderPrefix(s)
    IN  IF p = None THEN None
        ELSE
          LET b == IF At(s, p.colon + 1) \in Whitespace
                   THEN p.colon + 2 ELSE p.colon + 1
          IN  [date_str     |-> SubSeq(s, 1, p.dateEnd),
               time_str     |-> SubSeq(s, p.timeStart, p.timeEnd),
               sender       |-> SubSeq(s, p.senderStart, p.colon - 1),
               message_text |-> SubSeq(s, b, Len(s))]

\* re.match(pattern, s): the four groups, or None.
pattern(s) ==
    LET p == HeaderPrefix(s)
    IN  IF /\ p # None
           /\ At(s, p.colon + 1) \in Whitespace
           /\ Len(s) >= p.colon + 2
           /\ \A k \in (p.colon + 2)..Len(s) : s[k] # "\n"
        THEN [date_str     |-> SubSeq(s, 1, p.dateEnd),
              time_str     |-> SubSeq(s, p.timeStart, p.timeEnd),
              sender       |-> SubSeq(s, p.senderStart, p.colon - 1),
              message_text |-> SubSeq(s, p.colon + 2, Len(s))]
        ELSE None

-----------------------------------------------------------------------------
\* datetime.strptime(datetime_str, "%d/%m/%y, %I:%M %p")

IsLeap(y) == (y % 4 = 0 /\ y % 100 # 0) \/ y % 400 = 0

DaysInMonth(y, mo) ==
    IF mo = 2 THEN (IF IsLeap(y) THEN 29 ELSE 28)
    ELSE IF mo \in {4, 6, 9, 11} THEN 30 ELSE 31

\* The number written by the n digits of s that start at p.
NumAt(s, p, n) ==
    IF n = 1 THEN DigitVal(s[p]) ELSE 10 * DigitVal(s[p]) + DigitVal(s[p + 1])

\* Length of the \s+ run at position p.
RECURSIVE SpaceRun(_, _)
SpaceRun(s, p) ==
    IF At(s, p) \in Whitespace THEN 1 + SpaceRun(s, p + 1) ELSE 0

\* strptime that reads the date as month/day/year.
strptime_MonthFirst(s) ==
    LET dn == DigitRun(s, 1)
        s1 == 1 + dn
        mn == DigitRun(s, s1 + 1)
        s2 == s1 + 1 + mn
        c1 == s2 + 3
        w1 == SpaceRun(s, c1 + 1)
        t0 == c1 + 1 + w1
        hn == DigitRun(s, t0)
        c2 == t0 + hn
        w2 == SpaceRun(s, c2 + 3)
        ap == c2 + 3 + w2
        shape ==
            /\ dn > 0 /\ At(s, s1) = "/"
            /\ mn > 0 /\ At(s, s2) = "/"
            /\ At(s, s2 + 1) \in Digit /\ At(s, s2 + 2) \in Digit
            /\ At(s, c1) = "," /\ w1 > 0
            /\ hn > 0 /\ At(s, c2) = ":"
            /\ At(s, c2 + 1) \in Digit /\ At(s, c2 + 2) \in Digit
            /\ w2 > 0
            /\ At(s, ap) \in {"a", "p"} /\ At(s, ap + 1) = "m"
            /\ Len(s) = ap + 1
    IN  IF ~shape THEN None
        ELSE
          LET month  == NumAt(s, 1, dn)
              day    == NumAt(s, s1 + 1, mn)
              yy     == NumAt(s, s2 + 1, 2)
              year   == IF yy <= 68 THEN 2000 + yy ELSE 1900 + yy
              hour12 == NumAt(s, t0, hn)
              minute == NumAt(s, c2 + 1, 2)
              hour   == IF s[ap] = "p"
                        THEN (IF hour12 = 12 THEN 12 ELSE hour12 + 12)
                        ELSE (IF hour12 = 12 THEN 0 ELSE hour12)
          IN  IF /\ day \in 1..31 /\ month \in 1..12
                 /\ hour12 \in 1..12 /\ minute \in 0..59
                 /\ day <= DaysInMonth(year, month)
              THEN [year |-> year, month |-> month, day |-> day,
                    hour |-> hour, minute |-> minute]
              ELSE None

\* The decoded timestamp, or None where strptime raises ValueError.
strptime(s) ==
    LET dn == DigitRun(s, 1)
        s1 == 1 + dn
        mn == DigitRun(s, s1 + 1)
        s2 == s1 + 1 + mn
        c1 == s2 + 3
        w1 == SpaceRun(s, c1 + 1)
        t0 == c1 + 1 + w1
        hn == DigitRun(s, t0)
        c2 == t0 + hn
        w2 == SpaceRun(s, c2 + 3)
        ap == c2 + 3 + w2
        shape ==
            /\ dn > 0 /\ At(s, s1) = "/"
            /\ mn > 0 /\ At(s, s2) = "/"
            /\ At(s, s2 + 1) \in Digit /\ At(s, s2 + 2) \in Digit
            /\ At(s, c1) = "," /\ w1 > 0
            /\ hn > 0 /\ At(s, c2) = ":"
            /\ At(s, c2 + 1) \in Digit /\ At(s, c2 + 2) \in Digit
            /\ w2 > 0
            /\ At(s, ap) \in {"a", "p"} /\ At(s, ap + 1) = "m"
            /\ Len(s) = ap + 1
    IN  IF ~shape THEN None
        ELSE
          LET day    == NumAt(s, 1, dn)
              month  == NumAt(s, s1 + 1, mn)
              yy     == NumAt(s, s2 + 1, 2)
              year   == IF yy <= 68 THEN 2000 + yy ELSE 1900 + yy
              hour12 == NumAt(s, t0, hn)
              minute == NumAt(s, c2 + 1, 2)
              hour   == IF s[ap] = "p"
                        THEN (IF hour12 = 12 THEN 12 ELSE hour12 + 12)
                        ELSE (IF hour12 = 12 THEN 0 ELSE hour12)
          IN  IF /\ day \in 1..31 /\ month \in 1..12
                 /\ hour12 \in 1..12 /\ minute \in 0..59
                 /\ day <= DaysInMonth(year, month)
              THEN [year |-> year, month |-> month, day |-> day,
                    hour |-> hour, minute |-> minute]
              ELSE None

-----------------------------------------------------------------------------
\* Transcript lines the model draws from

\* Scenario A header (decodes to 2021-11-08 19:59): '08/11/21, 7:59 pm - Ananya: Hello there'
ScenarioA ==
    <<"0", "8", "/", "1", "1", "/", "2", "1", ",", " ", "7", ":", "5", "9", " ", "p", "m", " ", "-", " ", "A", "n", "a", "n", "y", "a", ":", " ", "H", "e", "l", "l", "o", " ", "t", "h", "e", "r", "e">>

\* Scenario C header (date does not decode): '32/13/21, 7:59 pm - Ananya: Oops'
ScenarioC ==
    <<"3", "2", "/", "1", "3", "/", "2", "1", ",", " ", "7", ":", "5", "9", " ", "p", "m", " ", "-", " ", "A", "n", "a", "n", "y", "a", ":", " ", "O", "o", "p", "s">>

\* header dated before Scenario A, one-digit day, colon in the body: '7/11/21, 12:05 am - Bo: b: c'
EarlierHeader ==
    <<"7", "/", "1", "1", "/", "2", "1", ",", " ", "1", "2", ":", "0", "5", " ", "a", "m", " ", "-", " ", "B", "o", ":", " ", "b", ":", " ", "c">>

\* header whose sender group is a single space: '08/11/21, 7:59 pm -  : hi'
BlankSender ==
    <<"0", "8", "/", "1", "1", "/", "2", "1", ",", " ", "7", ":", "5", "9", " ", "p", "m", " ", "-", " ", " ", ":", " ", "h", "i">>

\* header shape with nothing after the separator: '08/11/21, 7:59 pm - Ananya: '
EmptyBody ==
    <<"0", "8", "/", "1", "1", "/", "2", "1", ",", " ", "7", ":", "5", "9", " ", "p", "m", " ", "-", " ", "A", "n", "a", "n", "y", "a", ":", " ">>

\* header with padding around the line, the sender and the body: '  08/11/21, 9:00 pm - Cy :\t padded  '
PaddedHeader ==
    <<" ", " ", "0", "8", "/", "1", "1", "/", "2", "1", ",", " ", "9", ":", "0", "0", " ", "p", "m", " ", "-", " ", "C", "y", " ", ":", "\t", " ", "p", "a", "d", "d", "e", "d", " ", " ">>

\* plain continuation text: 'Line two'
LineTwo ==
    <<"L", "i", "n", "e", " ", "t", "w", "o">>

\* continuation text with surrounding whitespace: '  in '
Indented ==
    <<" ", " ", "i", "n", " ">>

\* empty line: ''
EmptyLine ==
    <<>>

\* whitespace-only line: ' \t'
BlankLine ==
    <<" ", "\t">>

\* four-digit year: not a header: '08/11/2021, 7:59 pm - Ananya: x'
LongYear ==
    <<"0", "8", "/", "1", "1", "/", "2", "0", "2", "1", ",", " ", "7", ":", "5", "9", " ", "p", "m", " ", "-", " ", "A", "n", "a", "n", "y", "a", ":", " ", "x">>

\* missing " - ": not a header: '08/11/21, 7:59 pm Ananya: x'
NoDash ==
    <<"0", "8", "/", "1", "1", "/", "2", "1", ",", " ", "7", ":", "5", "9", " ", "p", "m", " ", "A", "n", "a", "n", "y", "a", ":", " ", "x">>

LineTexts ==
    {ScenarioA, ScenarioC, EarlierHeader, BlankSender, EmptyBody,
     PaddedHeader, LineTwo, Indented, EmptyLine, BlankLine, LongYear, NoDash}

\* f.readlines(): every line keeps its "\n"; only the last line of a file
\* can lack one, and then it is not empty.
readlines(texts, finalNewline) ==
    [k \in 1..Len(texts) |->
        IF k < Len(texts) \/ finalNewline
        THEN texts[k] \o <<"\n">>
        ELSE texts[k]]

Transcripts ==
    UNION {[1..n -> LineTexts] : n \in 0..MaxLines}

-----------------------------------------------------------------------------
\* parse_whatsapp_chat

\* NewMessage that stores the sender group without stripping it.
NewMessage_RawSender(match) ==
    [datetime |-> strptime(match.date_str \o <<",", " ">> \o match.time_str),
     date     |-> match.date_str,
     time     |-> match.time_str,
     sender   |-> match.sender,
     message  |-> strip(match.message_text)]

\* NewMessage that stores the body group without stripping it.
NewMessage_RawBody(match) ==
    [datetime |-> strptime(match.date_str \o <<",", " ">> \o match.time_str),
     date     |-> match.date_str,
     time     |-> match.time_str,
     sender   |-> strip(match.sender),
     message  |-> match.message_text]

\* The dict built for a matched header.
NewMessage(match) ==
    [datetime |-> strptime(match.date_str \o <<",", " ">> \o match.time_str),
     date     |-> match.date_str,
     time     |-> match.time_str,
     sender   |-> strip(match.sender),
     message  |-> strip(match.message_text)]

Init ==
    /\ \E texts \in Transcripts, finalNewline \in BOOLEAN :
          /\ (texts = <<>> \/ texts[Len(texts)] = <<>>) => finalNewline
          /\ lines = readlines(texts, finalNewline)
    /\ i = 1
    /\ current_message = None
    /\ messages = <<>>
    /\ df = <<>>
    /\ pc = "loop"
    /\ first_csv = None
    /\ output_file = None
    /\ conversation_starters = None

\* ReadHeader that starts the new message without saving the open one.
ReadHeader_DropOpen ==
    /\ pc = "loop"
    /\ i <= Len(lines)
    /\ LET match == pattern(strip(lines[i]))
       IN  /\ match # None
           /\ current_message' = NewMessage(match)
    /\ i' = i + 1
    /\ UNCHANGED <<lines, messages, df, pc, outputs>>

\* ReadHeader that skips a header whose timestamp does not decode.
ReadHeader_SkipUndecodable ==
    /\ pc = "loop"
    /\ i <= Len(lines)
    /\ LET match == pattern(strip(lines[i]))
       IN  /\ match # None
           /\ IF NewMessage(match).datetime = None
              THEN UNCHANGED <<messages, current_message>>
              ELSE /\ messages' = IF current_message # None
                                  THEN Append(messages, current_message)
                                  ELSE messages
                   /\ current_message' = NewMessage(match)
    /\ i' = i + 1
    /\ UNCHANGED <<lines, df, pc, outputs>>

\* ReadHeader that puts the saved message at the front of the list.
ReadHeader_Prepend ==
    /\ pc = "loop"
    /\ i <= Len(lines)
    /\ LET match == pattern(strip(lines[i]))
       IN  /\ match # None
           /\ messages' = IF current_message # None
                          THEN <<current_message>> \o messages
                          ELSE messages
           /\ current_message' = NewMessage(match)
    /\ i' = i + 1
    /\ UNCHANGED <<lines, df, pc, outputs>>

\* ReadHeader that takes a matching line as a header only when no message
\* is open, and as body text otherwise.
ReadHeader_OnlyWhenClosed ==
    /\ pc = "loop"
    /\ i <= Len(lines)
    /\ LET match == pattern(strip(lines[i]))
       IN  /\ match # None
           /\ messages' = messages
           /\ current_message' =
                 IF current_message = None
                 THEN NewMessage(match)
                 ELSE [current_message EXCEPT
                          !.message = @ \o <<"\n">> \o strip(lines[i])]
    /\ i' = i + 1
    /\ UNCHANGED <<lines, df, pc, outputs>>

\* A loop iteration whose line matches the pattern: the open message is
\* saved and a new one is started.
ReadHeader ==
    /\ pc = "loop"
    /\ i <= Len(lines)
    /\ LET match == pattern(strip(lines[i]))
       IN  /\ match # None
           /\ messages' = IF current_message # None
                          THEN Append(messages, current_message)
                          ELSE messages
           /\ current_message' = NewMessage(match)
    /\ i' = i + 1
    /\ UNCHANGED <<lines, df, pc, outputs>>

\* ReadContinuation without the test that the line is not blank.
ReadContinuation_NoBlankCheck ==
    /\ pc = "loop"
    /\ i <= Len(lines)
    /\ pattern(strip(lines[i])) = None
    /\ current_message' =
          IF current_message # None
          THEN [current_message EXCEPT
                   !.message = @ \o <<"\n">> \o strip(lines[i])]
          ELSE current_message
    /\ i' = i + 1
    /\ UNCHANGED <<lines, messages, df, pc, outputs>>

\* ReadContinuation that puts the line in front of the body.
ReadContinuation_Prepend ==
    /\ pc = "loop"
    /\ i <= Len(lines)
    /\ pattern(strip(lines[i])) = None
    /\ current_message' =
          IF current_message # None /\ strip(lines[i]) # <<>>
          THEN [current_message EXCEPT
                   !.message = strip(lines[i]) \o <<"\n">> \o @]
          ELSE current_message
    /\ i' = i + 1
    /\ UNCHANGED <<lines, messages, df, pc, outputs>>

\* ReadContinuation that starts a message from a line met while none is
\* open.
ReadContinuation_OpensOnNoise ==
    /\ pc = "loop"
    /\ i <= Len(lines)
    /\ pattern(strip(lines[i])) = None
    /\ current_message' =
          IF strip(lines[i]) = <<>> THEN current_message
          ELSE IF current_message # None
               THEN [current_message EXCEPT
                        !.message = @ \o <<"\n">> \o strip(lines[i])]
               ELSE [datetime |-> None, date |-> <<>>, time |-> <<>>,
                     sender |-> <<>>, message |-> strip(lines[i])]
    /\ i' = i + 1
    /\ UNCHANGED <<lines, messages, df, pc, outputs>>

\* ReadContinuation that also appends the line to the last saved message.
ReadContinuation_AlsoLastSaved ==
    /\ pc = "loop"
    /\ i <= Len(lines)
    /\ pattern(strip(lines[i])) = None
    /\ IF current_message # None /\ strip(lines[i]) # <<>>
       THEN /\ current_message' =
                  [current_message EXCEPT
                      !.message = @ \o <<"\n">> \o strip(lines[i])]
            /\ messages' =
                  IF messages = <<>> THEN messages
                  ELSE [messages EXCEPT
                           ![Len(messages)].message =
                               @ \o <<"\n">> \o strip(lines[i])]
       ELSE UNCHANGED <<current_message, messages>>
    /\ i' = i + 1
    /\ UNCHANGED <<lines, df, pc, outputs>>

\* ReadContinuation in which a blank line closes the open message.
ReadContinuation_BlankCloses ==
    /\ pc = "loop"
    /\ i <= Len(lines)
    /\ pattern(strip(lines[i])) = None
    /\ IF current_message # None /\ strip(lines[i]) = <<>>
       THEN /\ messages' = Append(messages, current_message)
            /\ current_message' = None
       ELSE /\ messages' = messages
            /\ current_message' =
                  IF current_message # None
                  THEN [current_message EXCEPT
                           !.message = @ \o <<"\n">> \o strip(lines[i])]
                  ELSE current_message
    /\ i' = i + 1
    /\ UNCHANGED <<lines, df, pc, outputs>>

\* A loop iteration whose line does not match: it continues the open
\* message when there is one and the line is not blank.
ReadContinuation ==
    /\ pc = "loop"
    /\ i <= Len(lines)
    /\ pattern(strip(lines[i])) = None
    /\ current_message' =
          IF current_message # None /\ strip(lines[i]) # <<>>
          THEN [current_message EXCEPT
                   !.message = @ \o <<"\n">> \o strip(lines[i])]
          ELSE current_message
    /\ i' = i + 1
    /\ UNCHANGED <<lines, messages, df, pc, outputs>>

\* Flush that forgets the last message.
Flush_NoAppend ==
    /\ pc = "loop"
    /\ i > Len(lines)
    /\ pc' = "enrich"
    /\ UNCHANGED <<lines, i, current_message, messages, df, outputs>>

\* After the loop: the last message is saved.
Flush ==
    /\ pc = "loop"
    /\ i > Len(lines)
    /\ messages' = IF current_message # None
                   THEN Append(messages, current_message)
                   ELSE messages
    /\ pc' = "enrich"
    /\ UNCHANGED <<lines, i, current_message, df, outputs>>

\* Series.dt.day_name(): 0 is Monday.
Weekday(dt) ==
    LET a  == (14 - dt.month) \div 12
        y  == dt.year + 4800 - a
        mo == dt.month + 12 * a - 3
        jdn == dt.day + (153 * mo + 2) \div 5 + 365 * y
               + y \div 4 - y \div 100 + y \div 400 - 32045
    IN  jdn % 7

day_name(dt) ==
    <<"Monday", "Tuesday", "Wednesday", "Thursday", "Friday", "Saturday",
      "Sunday">>[Weekday(dt) + 1]

\* Series.dt.strftime('%Y-%m')
year_month(dt) ==
    <<DigitChar(dt.year \div 1000), DigitChar((dt.year \div 100) % 10),
      DigitChar((dt.year \div 10) % 10), DigitChar(dt.year % 10), "-",
      DigitChar(dt.month \div 10), DigitChar(dt.month % 10)>>

\* One row of the DataFrame with the derived columns; a row without a
\* timestamp gets null in each of them.
Row(m) ==
    [datetime    |-> m.datetime,
     date        |-> m.date,
     time        |-> m.time,
     sender      |-> m.sender,
     message     |-> m.message,
     year        |-> IF m.datetime = None THEN None ELSE m.datetime.year,
     month       |-> IF m.datetime = None THEN None ELSE m.datetime.month,
     year_month  |-> IF m.datetime = None THEN None ELSE year_month(m.datetime),
     day_of_week |-> IF m.datetime = None THEN None ELSE day_name(m.datetime),
     hour        |-> IF m.datetime = None THEN None ELSE m.datetime.hour]

\* pd.DataFrame(messages)['datetime'] is a datetime64 column, on which .dt
\* works, only when some record has a timestamp; when every timestamp is
\* None the column has dtype object.
IsDatetimeColumn(ms) == \E k \in 1..Len(ms) : ms[k].datetime # None

\* The DataFrame is built and the calendar columns are added; an empty
\* list gives a frame without a 'datetime' column and nothing is added.
Enrich ==
    /\ pc = "enrich"
    /\ messages = <<>> \/ IsDatetimeColumn(messages)
    /\ df' = [k \in 1..Len(messages) |-> Row(messages[k])]
    /\ pc' = "done"
    /\ UNCHANGED <<lines, i, current_message, messages, outputs>>

\* The .dt accessor of an object column raises AttributeError and
\* parse_whatsapp_chat returns nothing.
EnrichRaise ==
    /\ pc = "enrich"
    /\ messages # <<>>
    /\ ~IsDatetimeColumn(messages)
    /\ pc' = "raised"
    /\ UNCHANGED <<lines, i, current_message, messages, df, outputs>>

-----------------------------------------------------------------------------
\* The main block

\* header of a media placeholder, later than Scenario A: '08/11/21, 11:00 pm - Bo: <Media omitted>'
MediaOmitted ==
    <<"0", "8", "/", "1", "1", "/", "2", "1", ",", " ", "1", "1", ":", "0", "0", " ", "p", "m", " ", "-", " ", "B", "o", ":", " ", "<", "M", "e", "d", "i", "a", " ", "o", "m", "i", "t", "t", "e", "d", ">">>

\* header of the following month: '1/12/21, 9:00 am - Cy: later'
NextMonth ==
    <<"1", "/", "1", "2", "/", "2", "1", ",", " ", "9", ":", "0", "0", " ", "a", "m", " ", "-", " ", "C", "y", ":", " ", "l", "a", "t", "e", "r">>

\* The lines of the transcripts on which the whole main block is run.
MainTexts ==
    {ScenarioA, EarlierHeader, MediaOmitted, NextMonth, ScenarioC,
     BlankSender, LineTwo}

MainTranscripts ==
    UNION {[1..n -> MainTexts] : n \in 0..MaxLines}

\* The two bodies that the main block removes from the table.
MediaText ==
    <<"<", "M", "e", "d", "i", "a", " ", "o", "m", "i", "t", "t", "e", "d", ">">>

DeletedText ==
    <<"T", "h", "i", "s", " ", "m", "e", "s", "s", "a", "g", "e", " ", "w", "a", "s", " ", "d", "e", "l", "e", "t", "e", "d">>

\* DataFrame.to_csv(index=False): the file holds one record for each row,
\* in the order of the table.
to_csv(d) == [rows |-> d]

\* The row mask of the filter: the body is neither placeholder.
IsKept(row) == row.message # MediaText /\ row.message # DeletedText

\* FilterAndSave that writes the table without filtering it.
FilterAndSave_Unfiltered ==
    /\ pc = "done"
    /\ df # <<>>
    /\ first_csv' = to_csv(df)
    /\ pc' = "filtered"
    /\ UNCHANGED <<lines, i, current_message, messages, df, output_file,
                   conversation_starters>>

\* parse_whatsapp_chat has returned a frame with rows: the placeholder rows
\* are removed and the table is written to Chat_parsed.csv.
FilterAndSave ==
    /\ pc = "done"
    /\ df # <<>>
    /\ df' = SelectSeq(df, IsKept)
    /\ first_csv' = to_csv(df')
    /\ pc' = "filtered"
    /\ UNCHANGED <<lines, i, current_message, messages, output_file,
                   conversation_starters>>

\* The frame of an empty list has no 'message' column: df.message raises
\* AttributeError, which the except clause of the main block reports.
FilterRaise ==
    /\ pc = "done"
    /\ df = <<>>
    /\ pc' = "failed"
    /\ UNCHANGED <<lines, i, current_message, messages, df, outputs>>

\* The exception raised inside parse_whatsapp_chat reaches the except
\* clause of the main block.
MainExcept ==
    /\ pc = "raised"
    /\ pc' = "failed"
    /\ UNCHANGED <<lines, i, current_message, messages, df, outputs>>

\* df['datetime'].min() is NaT when no row has a timestamp, and
\* NaT.date() raises ValueError.
DateRangeRaises(d) == \A k \in 1..Len(d) : d[k].datetime = None

\* The 'hour' column was derived before the filter: it is a float column
\* when some record had no timestamp.
HourColumnIsFloat(ms) == \E k \in 1..Len(ms) : ms[k].datetime = None

\* f"{hour:02d}" raises ValueError for a float hour; it is evaluated when
\* some row has an hour.
HourLabelRaises(d, ms) ==
    /\ HourColumnIsFloat(ms)
    /\ \E k \in 1..Len(d) : d[k].datetime # None

\* analyze_chat_basics prints its statistics and changes nothing.
AnalyzeBasics ==
    /\ pc = "filtered"
    /\ ~DateRangeRaises(df)
    /\ ~HourLabelRaises(df, messages)
    /\ pc' = "analyzed"
    /\ UNCHANGED <<lines, i, current_message, messages, df, outputs>>

AnalyzeRaise ==
    /\ pc = "filtered"
    /\ DateRangeRaises(df) \/ HourLabelRaises(df, messages)
    /\ pc' = "failed"
    /\ UNCHANGED <<lines, i, current_message, messages, df, outputs>>

\* Characters of the Devanagari block U+0900..U+097F, each written as the
\* name of its code point.
Devanagari == {"U+0905", "U+0915", "U+0928", "U+092E", "U+0938", "U+0947"}

RECURSIVE CountIn(_, _)
CountIn(text, chars) ==
    IF text = <<>> THEN 0
    ELSE (IF Head(text) \in chars THEN 1 ELSE 0) + CountIn(Tail(text), chars)

\* hindi_ratio > 0.3, > 0.05, else english; 'other' for an empty text.
detect_script(text) ==
    LET hindi_chars == CountIn(text, Devanagari)
        total_chars == Len(text)
    IN  IF total_chars = 0 THEN "other"
        ELSE IF 10 * hindi_chars > 3 * total_chars THEN "hindi-heavy"
        ELSE IF 100 * hindi_chars > 5 * total_chars THEN "hinglish"
        ELSE "english"

\* A row with one more column.
WithColumn(row, name, value) ==
    [f \in DOMAIN row \cup {name} |-> IF f = name THEN value ELSE row[f]]

\* detect_language_patterns adds the language_type column.
DetectLanguage ==
    /\ pc = "analyzed"
    /\ df' = [k \in 1..Len(df) |->
                 WithColumn(df[k], "language_type",
                            detect_script(df[k].message))]
    /\ pc' = "tagged"
    /\ UNCHANGED <<lines, i, current_message, messages, outputs>>

\* Minutes from 1970-01-01 00:00 to the timestamp.
Minutes(dt) ==
    LET a  == (14 - dt.month) \div 12
        y  == dt.year + 4800 - a
        mo == dt.month + 12 * a - 3
        jdn == dt.day + (153 * mo + 2) \div 5 + 365 * y
               + y \div 4 - y \div 100 + y \div 400 - 32045
    IN  ((jdn - 2440588) * 24 + dt.hour) * 60 + dt.minute

\* pd.Timedelta(hours=...), held in minutes.
Timedelta(hours) == [minutes |-> 60 * hours]

Orders(n) ==
    {p \in [1..n -> 1..n] : \A a, b \in 1..n : a # b => p[a] # p[b]}

\* The row orders sort_values('datetime') can give: timestamps ascending,
\* rows with equal timestamps in any order (the default sort is not
\* stable), rows without a timestamp last in their original order.
SortOrders(d) ==
    {p \in Orders(Len(d)) :
        \A a, b \in 1..Len(d) :
            a < b =>
                LET x == d[p[a]].datetime
                    y == d[p[b]].datetime
                IN  /\ x = None => (y = None /\ p[a] < p[b])
                    /\ (x # None /\ y # None) => Minutes(x) <= Minutes(y)}

\* Series.diff() of the datetime column at row k: NaT for the first row
\* and when either timestamp is NaT.
diff(d, k) ==
    IF k = 1 THEN None
    ELSE IF d[k].datetime = None \/ d[k - 1].datetime = None THEN None
    ELSE [minutes |-> Minutes(d[k].datetime) - Minutes(d[k - 1].datetime)]

\* A comparison with NaT is False.
IsStarter(row) ==
    /\ row.time_since_last # None
    /\ row.time_since_last.minutes > Timedelta(3).minutes

\* IsStarter that also takes a gap of exactly three hours.
IsStarter_AtLeast(row) ==
    /\ row.time_since_last # None
    /\ row.time_since_last.minutes >= Timedelta(3).minutes

\* FindStarters that selects gaps of three hours or more.
FindStarters_AtLeast ==
    /\ pc = "tagged"
    /\ \E p \in SortOrders(df) :
          LET sorted == [k \in 1..Len(df) |-> df[p[k]]]
          IN  /\ df' = [k \in 1..Len(df) |->
                           WithColumn(sorted[k], "time_since_last",
                                      diff(sorted, k))]
              /\ conversation_starters' = SelectSeq(df', IsStarter_AtLeast)
    /\ pc' = "sorted"
    /\ UNCHANGED <<lines, i, current_message, messages, first_csv,
                   output_file>>

\* find_conversation_starters sorts the table by timestamp, adds the gap to
\* the previous row and selects the rows after a gap of more than three
\* hours; the main block keeps the sorted table it returns.
FindStarters ==
    /\ pc = "tagged"
    /\ \E p \in SortOrders(df) :
          LET sorted == [k \in 1..Len(df) |-> df[p[k]]]
          IN  /\ df' = [k \in 1..Len(df) |->
                           WithColumn(sorted[k], "time_since_last",
                                      diff(sorted, k))]
              /\ conversation_starters' = SelectSeq(df', IsStarter)
    /\ pc' = "sorted"
    /\ UNCHANGED <<lines, i, current_message, messages, first_csv,
                   output_file>>

\* df['year_month'].unique(): for each value, in order of first
\* appearance, the first row that has it; NaN counts as one value.
RECURSIVE unique(_)
unique(d) ==
    IF d = <<>> THEN <<>>
    ELSE LET init == unique(SubSeq(d, 1, Len(d) - 1))
             last == d[Len(d)]
             same(row) ==
                 IF row.datetime = None \/ last.datetime = None
                 THEN row.datetime = last.datetime
                 ELSE row.year_month = last.year_month
         IN  IF \E k \in 1..Len(init) : same(init[k])
             THEN init ELSE Append(init, last)

\* The rows sample_messages_by_period prints: the first n rows of the
\* first, the middle and the last period; no row equals the NaN period.
Samples(d, n) ==
    LET periods == unique(d)
        sample_periods ==
            <<periods[1], periods[Len(periods) \div 2 + 1],
              periods[Len(periods)]>>
        head(period) ==
            LET period_df ==
                    SelectSeq(d, LAMBDA row :
                                    /\ period.datetime # None
                                    /\ row.datetime # None
                                    /\ row.year_month = period.year_month)
            IN  SubSeq(period_df, 1,
                       IF Len(period_df) < n THEN Len(period_df) ELSE n)
    IN  head(sample_periods[1]) \o head(sample_periods[2])
            \o head(sample_periods[3])

\* periods[0] raises IndexError for a table without rows, and
\* row['sender'].split()[0] for a sender without a word.
SampleRaises(d) ==
    \/ d = <<>>
    \/ \E k \in 1..Len(Samples(d, 5)) : strip(Samples(d, 5)[k].sender) = <<>>

\* The samples are printed and the table is written to the output file.
SampleAndSave ==
    /\ pc = "sorted"
    /\ ~SampleRaises(df)
    /\ output_file' = to_csv(df)
    /\ pc' = "saved"
    /\ UNCHANGED <<lines, i, current_message, messages, df, first_csv,
                   conversation_starters>>

SampleRaise ==
    /\ pc = "sorted"
    /\ SampleRaises(df)
    /\ pc' = "failed"
    /\ UNCHANGED <<lines, i, current_message, messages, df, outputs>>

-----------------------------------------------------------------------------

Next ==
    \/ ReadHeader
    \/ ReadContinuation
    \/ Flush
    \/ Enrich
    \/ EnrichRaise

\* parse_whatsapp_chat on any transcript.
Spec == Init /\ [][Next]_vars

\* The main block starts on a transcript of MainTexts.
MainInit ==
    /\ \E texts \in MainTranscripts, finalNewline \in BOOLEAN :
          /\ texts = <<>> => finalNewline
          /\ lines = readlines(texts, finalNewline)
    /\ i = 1
    /\ current_message = None
    /\ messages = <<>>
    /\ df = <<>>
    /\ pc = "loop"
    /\ first_csv = None
    /\ output_file = None
    /\ conversation_starters = None

MainNext ==
    \/ ReadHeader
    \/ ReadContinuation
    \/ Flush
    \/ Enrich
    \/ EnrichRaise
    \/ MainExcept
    \/ FilterAndSave
    \/ FilterRaise
    \/ AnalyzeBasics
    \/ AnalyzeRaise
    \/ DetectLanguage
    \/ FindStarters
    \/ SampleAndSave
    \/ SampleRaise

\* The main block: parse_whatsapp_chat, then the filter, the analyses and
\* the two files.
MainSpec == MainInit /\ [][MainNext]_vars

-----------------------------------------------------------------------------
\* Decoding of one header

\* Date and time tokens a header is built from, each with the number it
\* is the decimal numeral of.
DayTokens ==
    {[text |-> <<"0">>, value |-> 0],
     [text |-> <<"8">>, value |-> 8],
     [text |-> <<"0", "8">>, value |-> 8],
     [text |-> <<"2", "9">>, value |-> 29],
     [text |-> <<"3", "0">>, value |-> 30],
     [text |-> <<"3", "1">>, value |-> 31],
     [text |-> <<"3", "2">>, value |-> 32]}

MonthTokens ==
    {[text |-> <<"0">>, value |-> 0],
     [text |-> <<"2">>, value |-> 2],
     [text |-> <<"0", "2">>, value |-> 2],
     [text |-> <<"4">>, value |-> 4],
     [text |-> <<"1", "1">>, value |-> 11],
     [text |-> <<"1", "2">>, value |-> 12],
     [text |-> <<"1", "3">>, value |-> 13]}

YearTokens ==
    {[text |-> <<"0", "0">>, value |-> 0],
     [text |-> <<"2", "0">>, value |-> 20],
     [text |-> <<"2", "1">>, value |-> 21],
     [text |-> <<"2", "3">>, value |-> 23]}

HourTokens ==
    {[text |-> <<"0">>, value |-> 0],
     [text |-> <<"1">>, value |-> 1],
     [text |-> <<"7">>, value |-> 7],
     [text |-> <<"0", "7">>, value |-> 7],
     [text |-> <<"1", "2">>, value |-> 12],
     [text |-> <<"1", "3">>, value |-> 13]}

MinuteTokens ==
    {[text |-> <<"0", "0">>, value |-> 0],
     [text |-> <<"0", "5">>, value |-> 5],
     [text |-> <<"5", "9">>, value |-> 59],
     [text |-> <<"6", "0">>, value |-> 60]}

Markers == {<<"a", "m">>, <<"p", "m">>}

\* The date and the time token as WhatsApp writes them in a header.
DateToken(d, m, y) == d.text \o <<"/">> \o m.text \o <<"/">> \o y.text

TimeToken(h, mi, ap) == h.text \o <<":">> \o mi.text \o <<" ">> \o ap

\* A transcript of one header line with the given tokens.
DecodeInit ==
    /\ \E d \in DayTokens, m \in MonthTokens, y \in YearTokens,
          h \in HourTokens, mi \in MinuteTokens, ap \in Markers :
          lines = readlines(<<DateToken(d, m, y) \o <<",", " ">>
                                  \o TimeToken(h, mi, ap)
                                  \o <<" ", "-", " ", "A", ":", " ", "x">>>>,
                            TRUE)
    /\ i = 1
    /\ current_message = None
    /\ messages = <<>>
    /\ df = <<>>
    /\ pc = "loop"
    /\ first_csv = None
    /\ output_file = None
    /\ conversation_starters = None

\* The header line is read.
DecodeSpec == DecodeInit /\ [][ReadHeader]_vars

-----------------------------------------------------------------------------
\* find_conversation_starters on its own

\* Largest number of rows of a table handed to find_conversation_starters.
MaxRecords == 3

\* Timestamps of the rows: three hours exactly and three hours and a
\* minute after the first, also over midnight and over the end of a month.
StarterTimes ==
    <<None,
      [year |-> 2021, month |-> 11, day |-> 8, hour |-> 19, minute |-> 59],
      [year |-> 2021, month |-> 11, day |-> 8, hour |-> 22, minute |-> 59],
      [year |-> 2021, month |-> 11, day |-> 8, hour |-> 23, minute |-> 0],
      [year |-> 2021, month |-> 11, day |-> 9, hour |-> 2, minute |-> 0],
      [year |-> 2021, month |-> 10, day |-> 31, hour |-> 23, minute |-> 0],
      [year |-> 2021, month |-> 11, day |-> 1, hour |-> 2, minute |-> 1]>>

StarterSenders == <<<<"A">>, <<"B">>>>

\* The row of a message with the t-th timestamp and the w-th sender, as
\* detect_language_patterns leaves it.
StarterRow(t, w) ==
    WithColumn(Row([datetime |-> StarterTimes[t], date |-> <<>>,
                    time |-> <<>>, sender |-> StarterSenders[w],
                    message |-> <<"x">>]),
               "language_type", "english")

\* A table of up to MaxRecords rows, in any order, is handed to
\* find_conversation_starters.
StarterInit ==
    /\ \E n \in 0..MaxRecords :
          \E t \in [1..n -> DOMAIN StarterTimes],
             w \in [1..n -> DOMAIN StarterSenders] :
              df = [k \in 1..n |-> StarterRow(t[k], w[k])]
    /\ pc = "tagged"
    /\ lines = <<>>
    /\ i = 1
    /\ current_message = None
    /\ messages = <<>>
    /\ first_csv = None
    /\ output_file = None
    /\ conversation_starters = None

StarterSpec == StarterInit /\ [][FindStarters]_vars

TypeOK ==
    /\ i \in 1..(Len(lines) + 1)
    /\ pc \in {"loop", "enrich", "done", "raised", "failed", "filtered",
              "analyzed", "tagged", "sorted", "saved"}
    /\ Len(messages) <= Len(lines)

-----------------------------------------------------------------------------
\* Vocabulary of the properties

IsHeader(k) == pattern(strip(lines[k])) # None

IsBlank(k) == strip(lines[k]) = <<>>

\* Line k without its line terminator.
LineText(k) ==
    IF lines[k] # <<>> /\ lines[k][Len(lines[k])] = "\n"
    THEN SubSeq(lines[k], 1, Len(lines[k]) - 1)
    ELSE lines[k]

\* The lines the loop has consumed.
Consumed == IF pc = "loop" THEN i - 1 ELSE Len(lines)

\* The positions, in order, of the header lines among lines 1..k.
RECURSIVE HeadersUpTo(_)
HeadersUpTo(k) ==
    IF k = 0 THEN <<>>
    ELSE IF IsHeader(k) THEN Append(HeadersUpTo(k - 1), k)
         ELSE HeadersUpTo(k - 1)

Started == HeadersUpTo(Consumed)

\* Every message there is: the saved ones and, during the loop, the open one.
AllMessages ==
    IF pc = "loop" /\ current_message # None
    THEN Append(messages, current_message)
    ELSE messages

\* The last consumed line that belongs to the n-th of the messages started
\* at the positions st.
SegmentEnd(st, n) ==
    IF n < Len(st) THEN st[n + 1] - 1 ELSE Consumed

\* The text split at its "\n" characters.
RECURSIVE SplitLines(_)
SplitLines(s) ==
    LET nl == CHOOSE p \in 1..(Len(s) + 1) :
                 /\ p = Len(s) + 1 \/ s[p] = "\n"
                 /\ \A q \in 1..(p - 1) : s[q] # "\n"
    IN  IF nl > Len(s) THEN <<s>>
        ELSE <<SubSeq(s, 1, nl - 1)>> \o SplitLines(SubSeq(s, nl + 1, Len(s)))

\* The body lines of the messages ms, one after the other.
RECURSIVE BodyLines(_)
BodyLines(ms) ==
    IF ms = <<>> THEN <<>>
    ELSE SplitLines(Head(ms).message) \o BodyLines(Tail(ms))

\* What line k contributes to a body: a header its trimmed body group, any
\* other line its trimmed text.
BodyText(k) ==
    LET s     == strip(lines[k])
        match == pattern(s)
    IN  IF match # None THEN strip(match.message_text) ELSE s

\* BodyText of the non-blank lines among a..b, in order.
RECURSIVE NonBlankTexts(_, _)
NonBlankTexts(a, b) ==
    IF a > b THEN <<>>
    ELSE IF IsBlank(a) THEN NonBlankTexts(a + 1, b)
         ELSE <<BodyText(a)>> \o NonBlankTexts(a + 1, b)

\* The texts joined by "\n".
RECURSIVE JoinLines(_)
JoinLines(ts) ==
    IF Len(ts) = 1 THEN ts[1]
    ELSE ts[1] \o <<"\n">> \o JoinLines(Tail(ts))

FirstHeader ==
    LET st == Started
    IN  IF st = <<>> THEN Consumed + 1 ELSE st[1]

-----------------------------------------------------------------------------
\* C1: once the whole transcript is processed, the list holds as many
\* messages as the transcript has lines that match the header pattern; with
\* no such line the list is empty.
C1_CountEqualsHeaders ==
    pc # "loop" =>
        Len(messages) = Cardinality({k \in 1..Len(lines) : IsHeader(k)})

\* Two headers and a line that is none of them have been processed.
C1_Witness ==
    /\ pc # "loop"
    /\ Len(messages) = 2
    /\ \E k \in 1..Len(lines) : ~IsHeader(k)

\* C2 as stated: after the transcript is processed the body lines of the
\* messages are, one for one and in order, the non-blank lines of the whole
\* input.
C2_EveryLineAssigned ==
    pc # "loop" =>
        BodyLines(messages) = NonBlankTexts(1, Len(lines))

\* C2 amended: after the transcript is processed the body lines of the
\* messages are, one for one and in order, the non-blank lines from the
\* first header line on; the non-blank lines before it are in no message.
C2_LinesFromFirstHeaderAssigned ==
    pc # "loop" =>
        BodyLines(messages) = NonBlankTexts(FirstHeader, Len(lines))

\* A non-blank line before the first header, and a header with a
\* continuation line after it.
C2_Witness ==
    /\ pc # "loop"
    /\ Len(lines) = 3
    /\ ~IsHeader(1) /\ ~IsBlank(1)
    /\ IsHeader(2)
    /\ ~IsHeader(3) /\ ~IsBlank(3)
    /\ Len(BodyLines(messages)) = 2

\* C3: in every state the body of each message is the trimmed first body
\* line of its header followed, for each non-blank line up to the next
\* header (or the last line consumed), by "\n" and that line trimmed, in
\* the order of the lines.
C3_BodyIsJoinedLines ==
    LET st == Started
        ms == AllMessages
    IN  /\ Len(ms) = Len(st)
        /\ \A n \in 1..Len(ms) :
              ms[n].message =
                  JoinLines(NonBlankTexts(st[n], SegmentEnd(st, n)))

\* A saved message with two continuation lines, one of them with padding.
C3_Witness ==
    /\ Len(messages) >= 1
    /\ Len(SplitLines(messages[1].message)) = 3
    /\ \E k \in (Started[1] + 1)..SegmentEnd(Started, 1) :
          ~IsBlank(k) /\ LineText(k) # strip(lines[k])

\* The input has ended and a message is open.
OpenAtEnd == pc = "loop" /\ i > Len(lines) /\ current_message # None

\* The message that was open is the last of the list, and the list has one
\* message for each header.
Emitted ==
    /\ pc # "loop"
    /\ messages # <<>>
    /\ messages[Len(messages)] = current_message
    /\ Len(messages) = Len(HeadersUpTo(Len(lines)))

\* C4: when the input ends while a message is open, the step that follows
\* saves that message as the last of the list, and from then on the list
\* holds each opened message once, the last one included.
C4_LastMessageFlushed ==
    /\ [][OpenAtEnd => /\ pc' # "loop"
                        /\ messages' = Append(messages, current_message)
                        /\ current_message' = current_message]_vars
    /\ [](pc # "loop" /\ HeadersUpTo(Len(lines)) # <<>> => Emitted)

\* The transcript ended in the middle of a body and the message is saved.
C4_Witness ==
    /\ Emitted
    /\ ~IsHeader(Len(lines))
    /\ ~IsBlank(Len(lines))

\* C5: every consumed header gives a message that stays in the list; its
\* date and time are the tokens as they stand in the line, and its
\* timestamp is None exactly when strptime fails on "<date>, <time>".
C5_UndecodableRetained ==
    LET st == Started
        ms == AllMessages
    IN  /\ Len(ms) = Len(st)
        /\ \A n \in 1..Len(ms) :
              LET match == pattern(strip(lines[st[n]]))
                  dt    == strptime(match.date_str \o <<",", " ">>
                                        \o match.time_str)
              IN  /\ ms[n].date = match.date_str
                  /\ ms[n].time = match.time_str
                  /\ ms[n].datetime = dt

\* The list holds the message of "32/13/21, 7:59 pm - Ananya: Oops".
C5_Witness ==
    \E n \in 1..Len(messages) :
        /\ messages[n].datetime = None
        /\ messages[n].date = <<"3", "2", "/", "1", "3", "/", "2", "1">>
        /\ messages[n].time = <<"7", ":", "5", "9", " ", "p", "m">>

\* C6 as stated: parse_whatsapp_chat never ends in an exception, and the
\* rows it returns for records without a timestamp have null calendar
\* fields.
C6_NeverRaises ==
    /\ pc # "raised"
    /\ pc = "done" =>
          /\ Len(df) = Len(messages)
          /\ \A k \in 1..Len(df) :
                df[k].datetime = None =>
                    /\ df[k].year = None /\ df[k].month = None
                    /\ df[k].year_month = None /\ df[k].day_of_week = None
                    /\ df[k].hour = None

\* The header of line k up to the first character of the sender.
Prefix(k) ==
    LET s == strip(lines[k])
    IN  SubSeq(s, 1, HeaderPrefix(s).senderStart - 1)

\* The text rebuilt from message m, whose header is line k.
Rebuilt(m, k) ==
    Prefix(k) \o m.sender \o <<":", " ">> \o m.message

\* The header line k as the parser keeps it: the sender and body groups
\* trimmed and joined by ": ".
NormalHeader(k) ==
    LET match == pattern(strip(lines[k]))
    IN  Prefix(k) \o strip(match.sender) \o <<":", " ">>
            \o strip(match.message_text)

\* C7 as stated: the text rebuilt from a message, split at "\n", is line
\* for line the transcript from the message's header up to the next header.
C7_RoundTrip ==
    pc # "loop" =>
        LET st == Started
        IN  /\ Len(messages) = Len(st)
            /\ \A n \in 1..Len(messages) :
                  SplitLines(Rebuilt(messages[n], st[n])) =
                      [k \in 1..(SegmentEnd(st, n) - st[n] + 1) |->
                          LineText(st[n] + k - 1)]

\* C7 amended: the text rebuilt from a message, split at "\n", is the
\* header line with its sender and body trimmed and joined by ": ",
\* followed by the non-blank lines up to the next header, each trimmed;
\* blank lines and surrounding whitespace are not reproduced.
C7_RoundTripTrimmed ==
    pc # "loop" =>
        LET st == Started
        IN  /\ Len(messages) = Len(st)
            /\ \A n \in 1..Len(messages) :
                  SplitLines(Rebuilt(messages[n], st[n])) =
                      <<NormalHeader(st[n])>>
                          \o NonBlankTexts(st[n] + 1, SegmentEnd(st, n))

\* A padded header followed by a blank line and a continuation line.
C7_Witness ==
    /\ pc # "loop"
    /\ Len(lines) = 3
    /\ IsHeader(1) /\ lines[1] # strip(lines[1]) \o <<"\n">>
    /\ messages[1].sender # pattern(strip(lines[1])).sender
    /\ IsBlank(2)
    /\ ~IsHeader(3) /\ ~IsBlank(3)
    /\ Len(SplitLines(Rebuilt(messages[1], 1))) = 2

\* Line text that is a date, a time, " - ", a sender and the separator with
\* nothing after it.
IsEmptyBodyHeader(line) ==
    /\ HeaderPrefix(strip(line)) # None
    /\ HeaderPrefix(strip(line)).colon = Len(strip(line))
    /\ Len(line) > Len(strip(line))
    /\ line[Len(strip(line)) + 1] = " "

\* C8 as stated: once such a line is consumed, a message whose body is
\* empty is open.
C8_EmptyBodyOpensMessage ==
    (pc = "loop" /\ i > 1 /\ IsEmptyBodyHeader(lines[i - 1])) =>
        /\ current_message # None
        /\ current_message.message = <<>>

\* C8 amended: the body group needs at least one character, so such a line
\* is no header: consuming it saves no message and opens none; it is
\* appended, trimmed, to the body of the open message, and dropped when no
\* message is open.
C8_EmptyBodyIsContinuation ==
    [][(pc = "loop" /\ i <= Len(lines) /\ IsEmptyBodyHeader(lines[i])) =>
          /\ messages' = messages
          /\ current_message' =
                IF current_message = None THEN None
                ELSE [current_message EXCEPT
                         !.message = @ \o <<"\n">> \o strip(lines[i])]]_vars

\* Such a line has been consumed while a message was open.
C8_Witness ==
    /\ pc = "loop" /\ i > 2
    /\ IsEmptyBodyHeader(lines[i - 1])
    /\ current_message # None
    /\ Len(SplitLines(current_message.message)) >= 2

\* C9 as stated: the sender of every message has no colon and is not empty
\* once trimmed.
C9_SenderNonEmpty ==
    \A n \in 1..Len(AllMessages) :
        /\ \A k \in 1..Len(AllMessages[n].sender) :
              AllMessages[n].sender[k] # ":"
        /\ strip(AllMessages[n].sender) # <<>>

\* A number that grows with the timestamp.
TimeKey(dt) ==
    (((dt.year * 12 + dt.month) * 31 + dt.day) * 24 + dt.hour) * 60 + dt.minute

\* C10: the list only grows at its end, its n-th message is the one
\* started by the n-th header line of the transcript, whatever the
\* timestamps are, and the rows of the DataFrame keep that order.
C10_AppearanceOrder ==
    /\ [][/\ Len(messages') >= Len(messages)
          /\ SubSeq(messages', 1, Len(messages)) = messages
          /\ Len(messages') <= Len(messages) + 1]_vars
    /\ [](LET st == Started
              ms == AllMessages
          IN  /\ Len(ms) = Len(st)
              /\ \A n \in 1..Len(ms) :
                    LET match == pattern(strip(lines[st[n]]))
                    IN  /\ ms[n].date = match.date_str
                        /\ ms[n].time = match.time_str
                        /\ ms[n].sender = strip(match.sender)
                        /\ SplitLines(ms[n].message)[1]
                               = strip(match.message_text))
    /\ [](pc = "done" =>
            /\ Len(df) = Len(messages)
            /\ \A k \in 1..Len(df) :
                  /\ df[k].datetime = messages[k].datetime
                  /\ df[k].date = messages[k].date
                  /\ df[k].time = messages[k].time
                  /\ df[k].sender = messages[k].sender
                  /\ df[k].message = messages[k].message)

\* The first message of the list has a later timestamp than the second.
C10_Witness ==
    /\ Len(messages) >= 2
    /\ messages[1].datetime # None
    /\ messages[2].datetime # None
    /\ TimeKey(messages[1].datetime) > TimeKey(messages[2].datetime)

\* The messages the lines assemble to: one for each header line, with the
\* non-blank lines that follow it up to the next header.
Assembled ==
    LET st == Started
    IN  [n \in 1..Len(st) |->
            [NewMessage(pattern(strip(lines[st[n]]))) EXCEPT
                !.message = JoinLines(NonBlankTexts(st[n], SegmentEnd(st, n)))]]

\* C13: while no message is open a line that is no header leaves
\* current_message at None and the list empty, and the finished list is what
\* the lines from the first header on assemble to, so the lines before it
\* are in no message.
C13_LeadingNoiseIgnored ==
    /\ [][(pc = "loop" /\ i <= Len(lines) /\ current_message = None
              /\ ~IsHeader(i)) =>
             /\ current_message' = None
             /\ messages = <<>>
             /\ messages' = <<>>
             /\ pc' = "loop"]_vars
    /\ [](pc # "loop" =>
             /\ messages = Assembled
             /\ BodyLines(messages) = NonBlankTexts(FirstHeader, Len(lines)))

\* A non-blank line before the first header has been dropped.
C13_Witness ==
    /\ pc # "loop"
    /\ Len(messages) >= 1
    /\ FirstHeader > 1
    /\ ~IsBlank(1)

\* C14: no step changes a message that is already in the list.
C14_EmittedImmutable ==
    [][\A n \in 1..Len(messages) :
          /\ Len(messages') >= n
          /\ messages'[n] = messages[n]]_vars

\* A continuation line has been appended to the open message after an
\* earlier message was saved.
C14_Witness ==
    /\ pc = "loop"
    /\ Len(messages) >= 1
    /\ current_message # None
    /\ Len(SplitLines(current_message.message)) >= 2

\* C15: whether a line is a header depends on its own text only, and in
\* every state a matching line saves the open message, if there is one, and
\* opens the message of that line.
C15_HeaderAlwaysSplits ==
    [][(pc = "loop" /\ i <= Len(lines) /\ IsHeader(i)) =>
          /\ messages' = IF current_message # None
                         THEN Append(messages, current_message)
                         ELSE messages
          /\ current_message' # None
          /\ current_message'.date = pattern(strip(lines[i])).date_str
          /\ current_message'.time = pattern(strip(lines[i])).time_str
          /\ current_message'.sender = strip(pattern(strip(lines[i])).sender)
          /\ current_message'.message
                = strip(pattern(strip(lines[i])).message_text)]_vars

\* A matching line was consumed while a message was open and split it off.
C15_Witness ==
    /\ pc = "loop"
    /\ i > 2
    /\ IsHeader(i - 1)
    /\ IsHeader(i - 2)
    /\ Len(messages) >= 1

\* C16: while a message is open, a line that is blank once trimmed changes
\* neither the open message nor the list.
C16_BlankLineIgnored ==
    [][(pc = "loop" /\ i <= Len(lines) /\ current_message # None
           /\ IsBlank(i)) =>
          /\ current_message' = current_message
          /\ messages' = messages
          /\ pc' = "loop"]_vars

\* A blank line has been consumed while a message was open.
C16_Witness ==
    /\ pc = "loop"
    /\ i > 2
    /\ IsBlank(i - 1)
    /\ current_message # None

\* C17 as stated: the headers are the lines that match once their
\* trailing whitespace alone is removed.
C17_TrailingOnly ==
    Len(AllMessages) =
        Cardinality({k \in 1..Consumed : pattern(rstrip(lines[k])) # None})

\* C17 amended: the text that is classified is the line with its leading
\* and its trailing whitespace removed, so a line with whitespace before an
\* otherwise valid header is a header and starts a message.
C17_BothEndsTrimmed ==
    Len(AllMessages) =
        Cardinality({k \in 1..Consumed :
                        pattern(rstrip(lstrip(lines[k]))) # None})

\* A line with whitespace before a valid header has started a message.
C17_Witness ==
    \E k \in 1..Consumed :
        /\ At(lines[k], 1) \in Whitespace
        /\ pattern(rstrip(lstrip(lines[k]))) # None
        /\ Len(AllMessages) = Len(HeadersUpTo(k - 1)) + 1 + Len(Started)
                                 - Len(HeadersUpTo(k))

\* C20: the body of every message, open or saved, is not empty, and none of
\* its lines is empty or begins or ends with whitespace.
C20_BodyLinesTrimmed ==
    LET ms == AllMessages
    IN  \A n \in 1..Len(ms) :
            /\ ms[n].message # <<>>
            /\ \A p \in 1..Len(SplitLines(ms[n].message)) :
                  LET t == SplitLines(ms[n].message)[p]
                  IN  /\ t # <<>>
                      /\ t[1] \notin Whitespace
                      /\ t[Len(t)] \notin Whitespace

\* A message of a padded header with a padded continuation line.
C20_Witness ==
    /\ Len(messages) >= 1
    /\ Len(SplitLines(messages[1].message)) >= 2
    /\ pattern(strip(lines[1])) # None
    /\ pattern(strip(lines[1])).message_text # messages[1].message
    /\ At(pattern(strip(lines[1])).message_text, 1) \in Whitespace
    /\ \E k \in 2..Len(lines) : ~IsBlank(k) /\ At(lines[k], 1) \in Whitespace

\* The fields of a row that come from the assembled message.
Base(row) ==
    [datetime |-> row.datetime, date |-> row.date, time |-> row.time,
     sender |-> row.sender, message |-> row.message]

\* The assembled messages whose body is neither placeholder text.
Kept == SelectSeq(messages, IsKept)

\* How many rows of a table carry message m.
RowsOf(table, m) == Cardinality({k \in 1..Len(table) : Base(table[k]) = m})

\* C11 as stated: every table the main block writes has exactly one row
\* for each assembled message.
C11_OneRowPerMessage ==
    /\ first_csv # None => Len(first_csv.rows) = Len(messages)
    /\ output_file # None => Len(output_file.rows) = Len(messages)

\* C11 amended: every table the main block writes has exactly one row for
\* each assembled message whose body is not a placeholder text, and no
\* other row.
C11_OneRowPerKeptMessage ==
    LET kept == Kept
    IN  /\ first_csv # None =>
              /\ Len(first_csv.rows) = Len(kept)
              /\ \A k \in 1..Len(kept) : Base(first_csv.rows[k]) = kept[k]
        /\ output_file # None =>
              /\ Len(output_file.rows) = Len(kept)
              /\ \A k \in 1..Len(kept) :
                    RowsOf(output_file.rows, kept[k])
                        = Cardinality({j \in 1..Len(kept) : kept[j] = kept[k]})

\* Both tables are written and lack the row of a media placeholder.
C11_Witness ==
    /\ pc = "saved"
    /\ Len(first_csv.rows) >= 1
    /\ Len(output_file.rows) = Len(first_csv.rows)
    /\ Len(output_file.rows) < Len(messages)
    /\ \E n \in 1..Len(messages) : messages[n].message = MediaText

\* C18 as stated: after find_conversation_starters the table that is
\* sampled and written to the output file has its rows in the order in
\* which the assembler produced the messages.
C18_AppearanceOrderKept ==
    pc \in {"sorted", "saved"} =>
        LET kept == Kept
        IN  /\ Len(df) = Len(kept)
            /\ \A k \in 1..Len(df) : Base(df[k]) = kept[k]
            /\ output_file # None =>
                  \A k \in 1..Len(output_file.rows) : Base(output_file.rows[k]) = kept[k]

\* Days of a month of the years 2000..2068, where every fourth year is a
\* leap year.
CalendarDays(month, year) ==
    IF month \in {4, 6, 9, 11} THEN 30
    ELSE IF month = 2 THEN (IF year % 4 = 0 THEN 29 ELSE 28)
    ELSE 31

\* What the claim gives for a token pair.
Decoded(d, m, y, h, mi, ap) ==
    IF /\ m.value \in 1..12
       /\ d.value \in 1..CalendarDays(m.value, 2000 + y.value)
       /\ h.value \in 1..12
       /\ mi.value \in 0..59
    THEN [year   |-> 2000 + y.value,
          month  |-> m.value,
          day    |-> d.value,
          hour   |-> IF ap = <<"a", "m">>
                     THEN (IF h.value = 12 THEN 0 ELSE h.value)
                     ELSE (IF h.value = 12 THEN 12 ELSE h.value + 12),
          minute |-> mi.value]
    ELSE None

\* C12: the timestamp of a header has the first field of the date token
\* as day and the second as month, the year in 2000..2068 for a two-digit
\* year up to 68, and the hour of the 12-hour clock converted by the
\* marker; it is None when the date is not a calendar date, the hour is
\* not in 1..12 or the minute not in 0..59.
C12_DayMonthYearTwelveHour ==
    current_message # None =>
        \A d \in DayTokens, m \in MonthTokens, y \in YearTokens :
            current_message.date = DateToken(d, m, y) =>
                \A h \in HourTokens, mi \in MinuteTokens, ap \in Markers :
                    current_message.time = TimeToken(h, mi, ap) =>
                        current_message.datetime = Decoded(d, m, y, h, mi, ap)

\* The tokens of Scenario A have been decoded to 2021-11-08 19:59.
C12_Witness ==
    /\ current_message # None
    /\ current_message.date = <<"0", "8", "/", "1", "1", "/", "2", "1">>
    /\ current_message.time = <<"7", ":", "5", "9", " ", "p", "m">>
    /\ current_message.datetime =
          [year |-> 2021, month |-> 11, day |-> 8, hour |-> 19, minute |-> 59]

\* C19: the table is in ascending order of timestamp with the rows without
\* one last, and the conversation starters are exactly its rows, in order
\* and with their own sender, whose timestamp and whose predecessor's are
\* present and more than 180 minutes apart; a row exactly three hours
\* after its predecessor is none, a row three hours and a minute after is.
C19_StarterIffGapOverThreeHours ==
    pc = "sorted" =>
        LET gap(k) == Minutes(df[k].datetime) - Minutes(df[k - 1].datetime)
            present(k) == k > 1 /\ df[k].datetime # None
                              /\ df[k - 1].datetime # None
            starters == {k \in 1..Len(df) : present(k) /\ gap(k) > 180}
        IN  /\ \A k \in 2..Len(df) :
                  /\ df[k - 1].datetime = None => df[k].datetime = None
                  /\ present(k) => gap(k) >= 0
            /\ Len(conversation_starters) = Cardinality(starters)
            /\ \A k \in starters :
                  LET n == Cardinality({j \in starters : j <= k})
                  IN  /\ Base(conversation_starters[n]) = Base(df[k])
                      /\ conversation_starters[n].sender = df[k].sender
            /\ \A k \in 2..Len(df) :
                  /\ (/\ df[k - 1].datetime = [year |-> 2021, month |-> 11,
                                                day |-> 8, hour |-> 19,
                                                minute |-> 59]
                      /\ df[k].datetime = [year |-> 2021, month |-> 11,
                                            day |-> 8, hour |-> 22,
                                            minute |-> 59])
                        => k \notin starters
                  /\ (/\ df[k - 1].datetime = [year |-> 2021, month |-> 11,
                                                day |-> 8, hour |-> 19,
                                                minute |-> 59]
                      /\ df[k].datetime = [year |-> 2021, month |-> 11,
                                            day |-> 8, hour |-> 23,
                                            minute |-> 0])
                        => k \in starters
                  /\ (/\ df[k - 1].datetime = [year |-> 2021, month |-> 10,
                                                day |-> 31, hour |-> 23,
                                                minute |-> 0]
                      /\ df[k].datetime = [year |-> 2021, month |-> 11,
                                            day |-> 1, hour |-> 2,
                                            minute |-> 1])
                        => k \in starters

\* A sorted table whose second row is exactly three hours after the
\* first and is no starter, and whose third row, three hours and a minute
\* after the second, is the one starter.
C19_Witness ==
    /\ pc = "sorted"
    /\ Len(df) = 3
    /\ df[1].datetime = [year |-> 2021, month |-> 11, day |-> 8,
                         hour |-> 19, minute |-> 59]
    /\ df[2].datetime = [year |-> 2021, month |-> 11, day |-> 8,
                         hour |-> 22, minute |-> 59]
    /\ df[3].datetime = [year |-> 2021, month |-> 11, day |-> 9,
                         hour |-> 2, minute |-> 0]
    /\ Len(conversation_starters) = 1
    /\ conversation_starters[1].sender = df[3].sender
    /\ df[3].sender # df[2].sender

====
